---- MODULE Spec2Model ----
(***************************************************************************)
(* Piecewise-linear interpolation over knots, as written in the notebook   *)
(* Section4_1-Bayesian_Time_Series.ipynb: the univariate interpolate       *)
(* (x0, y0, x) and the grouped interpolate (x0, y0, x, group); further    *)
(* down, the notebook's seeding and sampling statements run top to bottom, *)
(* and the scan that computes the ARMA(1,1) innovations.                   *)
(*                                                                         *)
(* Arrays are 1-based sequences here; an operator that takes a Python      *)
(* index takes it 0-based, as the code writes it.  Real numbers are exact  *)
(* rationals <<num, den>> in lowest terms with den > 0; the results numpy  *)
(* gives for a division by zero are <<1, 0>> (inf), <<-1, 0>> (-inf) and   *)
(* <<0, 0>> (nan).  Floating-point rounding and signed zeros are outside   *)
(* the model.                                                              *)
(***************************************************************************)
EXTENDS Integers, Sequences, FiniteSets, TLC

VARIABLES x0, y0, x, group, pc, idx, wl, err, out

\* the notebook run top to bottom: the next statement to run, the global
\* names with numpy's global random state among them, and the sampling
\* steps run so far
VARIABLES cell, env, runs

vars == <<x0, y0, x, group, pc, idx, wl, err, out, cell, env, runs>>

nbvars == <<cell, env, runs>>

\* the notebook itself is not running
NotebookIdle == cell = 0 /\ env = <<>> /\ runs = <<>>

\* no call of interpolate is in flight
CallIdle ==
    /\ x0 = <<>>
    /\ y0 = <<>>
    /\ x = <<>>
    /\ group = <<>>
    /\ pc = "idle"
    /\ idx = <<>>
    /\ wl = <<>>
    /\ err = "none"
    /\ out = <<>>

callvars == <<x0, y0, x, group, pc, idx, wl, err, out>>

(***************************************************************************)
(* Bounds of the checked instances.                                        *)
(***************************************************************************)
MaxKnots == 3
MaxPos == 2
MaxVal == 1
MaxQueries == 2
MaxScale == 2
NumGroups == 2

(***************************************************************************)
(* Rational arithmetic with numpy's non-finite results.                    *)
(***************************************************************************)
Abs(i) == IF i < 0 THEN -i ELSE i

Sign(i) == IF i > 0 THEN 1 ELSE IF i < 0 THEN -1 ELSE 0

RECURSIVE GCD(_, _)
GCD(a, b) == IF b = 0 THEN a ELSE GCD(b, a % b)

Norm(n, d) ==
    IF d = 0 THEN <<Sign(n), 0>>
    ELSE LET g == GCD(Abs(n), Abs(d))
         IN  <<(Sign(d) * n) \div g, Abs(d) \div g>>

R(i) == <<i, 1>>

Finite(a) == a[2] # 0

NaN == <<0, 0>>

RNeg(a) == <<-a[1], a[2]>>

RAdd(a, b) ==
    IF Finite(a) /\ Finite(b) THEN Norm(a[1] * b[2] + b[1] * a[2], a[2] * b[2])
    ELSE IF a = NaN \/ b = NaN THEN NaN
    ELSE IF Finite(a) THEN b
    ELSE IF Finite(b) THEN a
    ELSE IF a = b THEN a ELSE NaN

RSub(a, b) == RAdd(a, RNeg(b))

RMul(a, b) == Norm(a[1] * b[1], a[2] * b[2])

RDiv(a, b) == Norm(a[1] * b[2], a[2] * b[1])

\* a <= b; false when either side is nan, as every comparison with nan is
RLeq(a, b) ==
    IF a = NaN \/ b = NaN THEN FALSE
    ELSE IF Finite(a) /\ Finite(b) THEN a[1] * b[2] <= b[1] * a[2]
    ELSE IF Finite(a) THEN b[1] > 0
    ELSE IF Finite(b) THEN a[1] < 0
    ELSE a[1] <= b[1]

(***************************************************************************)
(* numpy indexing.                                                         *)
(***************************************************************************)
\* a[i] is defined for -len(a) <= i < len(a); any other index raises IndexError
InBounds(a, i) == -Len(a) <= i /\ i < Len(a)

\* a[i] without Python's wraparound: a negative index reads the first element
AtClamped(a, i) == IF i >= 0 THEN a[i + 1] ELSE a[1]

\* a[i], 0-based; a negative index counts from the end of the array
At(a, i) == IF i >= 0 THEN a[i + 1] ELSE a[Len(a) + i + 1]

\* np.searchsorted(a, v), side='left': the binary search numpy runs
RECURSIVE BinSearch(_, _, _, _)
BinSearch(a, v, lo, hi) ==
    IF lo >= hi THEN lo
    ELSE LET mid == lo + ((hi - lo) \div 2)
         IN  IF a[mid + 1] < v
             THEN BinSearch(a, v, mid + 1, hi)
             ELSE BinSearch(a, v, lo, mid)

\* side='right': equal elements are passed over
RECURSIVE BinSearchRight(_, _, _, _)
BinSearchRight(a, v, lo, hi) ==
    IF lo >= hi THEN lo
    ELSE LET mid == lo + ((hi - lo) \div 2)
         IN  IF a[mid + 1] <= v
             THEN BinSearchRight(a, v, mid + 1, hi)
             ELSE BinSearchRight(a, v, lo, mid)

SearchsortedRight(a, v) == BinSearchRight(a, v, 0, Len(a))

\* the index clipped to the last knot, as np.clip(idx, 0, len(a) - 1)
SearchsortedClipped(a, v) ==
    LET i == BinSearch(a, v, 0, Len(a))
    IN  IF i > Len(a) - 1 THEN Len(a) - 1 ELSE i

\* the index of the left neighbour instead of the insertion point
SearchsortedFloor(a, v) ==
    LET i == BinSearch(a, v, 0, Len(a))
    IN  IF i > 0 THEN i - 1 ELSE 0

Searchsorted(a, v) == BinSearch(a, v, 0, Len(a))

(***************************************************************************)
(* The body of interpolate, line by line, for one element of the batch.    *)
(***************************************************************************)
\* dl = x - x0[idx]
DlFromRight(k, v, i) == v - At(k, i)

\* dl = x - x0[idx - 1]
Dl(k, v, i) == v - At(k, i - 1)

\* dr = x0[idx - 1] - x
DrFromLeft(k, v, i) == At(k, i - 1) - v

\* dr = x0[idx] - x
Dr(k, v, i) == At(k, i) - v

\* d = dl - dr
DMinus(k, v, i) == Dl(k, v, i) - Dr(k, v, i)

\* d = dl + dr
D(k, v, i) == Dl(k, v, i) + Dr(k, v, i)

\* wl = dl / d
WlLeft(k, v, i) == RDiv(R(Dl(k, v, i)), R(D(k, v, i)))

\* wl = dr
WlUnnormalised(k, v, i) == R(Dr(k, v, i))

\* wl = dr / d
Wl(k, v, i) == RDiv(R(Dr(k, v, i)), R(D(k, v, i)))

\* wl * y0[idx] + (1 - wl) * y0[idx - 1]
BlendSwapped(w, lo, hi) == RAdd(RMul(w, R(hi)), RMul(RSub(R(1), w), R(lo)))

\* wl * y0[idx - 1] + (1 + wl) * y0[idx]
BlendSignSlip(w, lo, hi) == RAdd(RMul(w, R(lo)), RMul(RAdd(R(1), w), R(hi)))

\* wl * y0[idx - 1] + (1 - wl) * y0[idx], with lo = y0[idx - 1], hi = y0[idx]
Blend(w, lo, hi) == RAdd(RMul(w, R(lo)), RMul(RSub(R(1), w), R(hi)))

(***************************************************************************)
(* The same lines over the whole batch: numpy evaluates each line for      *)
(* every element before the next line runs, and an index out of bounds in  *)
(* any element raises IndexError for the whole expression.                 *)
(***************************************************************************)
\* idx = np.searchsorted(x0, x)
IdxOf(k, q) == [i \in 1..Len(q) |-> Searchsorted(k, q[i])]

\* x0[idx - 1] and x0[idx] can be read for every element
KnotsReadable(k, ix) ==
    \A i \in 1..Len(ix) : InBounds(k, ix[i] - 1) /\ InBounds(k, ix[i])

WlOf(k, q, ix) == [i \in 1..Len(q) |-> Wl(k, q[i], ix[i])]

\* y0[idx - 1] and y0[idx] can be read for every element
ValuesReadable(v, ix) ==
    \A i \in 1..Len(ix) : InBounds(v, ix[i] - 1) /\ InBounds(v, ix[i])

ResultOf(w, v, ix) ==
    [i \in 1..Len(ix) |-> Blend(w[i], At(v, ix[i] - 1), At(v, ix[i]))]

(***************************************************************************)
(* Inputs of the checked instances.                                        *)
(***************************************************************************)
KnotPositions == {2 * i : i \in 0..MaxPos}

QueryPositions == -1..(2 * MaxPos + 1)

Vals == 0..MaxVal

StrictlyIncreasing(s) == \A i \in 1..(Len(s) - 1) : s[i] < s[i + 1]

KnotSeqs ==
    {s \in UNION {[1..n -> KnotPositions] : n \in 2..MaxKnots} :
        StrictlyIncreasing(s)}

QueryBatches == UNION {[1..m -> QueryPositions] : m \in 0..MaxQueries}

\* the documented calls: knots [0, 10, 20] with values [0, 100, 0], and knots
\* [0, 10] with values [5, 15]
ScenarioArgs ==
    \/ /\ x0 = <<0, 10, 20>>
       /\ y0 = <<0, 100, 0>>
       /\ x \in {<<5>>, <<15>>, <<5, 15>>, <<25>>, <<5, 25>>}
    \/ /\ x0 = <<0, 10>>
       /\ y0 = <<5, 15>>
       /\ x \in {<<10>>, <<-5>>, <<-5, 5>>}

Init ==
    /\ \/ /\ x0 \in KnotSeqs
          /\ y0 \in [1..Len(x0) -> Vals]
          /\ x \in QueryBatches
       \/ ScenarioArgs
    /\ group = <<>>
    /\ pc = "ready"
    /\ idx = <<>>
    /\ wl = <<>>
    /\ err = "none"
    /\ out = <<>>
    /\ NotebookIdle

(***************************************************************************)
(* interpolate(x0, y0, x): the locals idx and wl as far as they were       *)
(* assigned, the exception raised if any, and the array returned.          *)
(***************************************************************************)
interpolate(k, v, q) ==
    LET ix == IdxOf(k, q)
    IN  IF ~KnotsReadable(k, ix)
        THEN [idx |-> ix, wl |-> <<>>, err |-> "IndexError", out |-> <<>>]
        ELSE LET w == WlOf(k, q, ix)
             IN  IF ~ValuesReadable(v, ix)
                 THEN [idx |-> ix, wl |-> w, err |-> "IndexError", out |-> <<>>]
                 ELSE [idx |-> ix, wl |-> w, err |-> "none",
                       out |-> ResultOf(w, v, ix)]

Interpolate ==
    /\ pc = "ready"
    /\ pc' = "done"
    /\ LET r == interpolate(x0, y0, x)
       IN  /\ idx' = r.idx
           /\ wl' = r.wl
           /\ err' = r.err
           /\ out' = r.out
    /\ UNCHANGED nbvars
    /\ UNCHANGED <<x0, y0, x, group>>

Next == Interpolate

Spec == Init /\ [][Next]_vars

(***************************************************************************)
(* interpolate(x0, y0, x, group): y0 is a table, a sequence of rows, one   *)
(* row per knot and one column per group; group holds 0-based columns.     *)
(***************************************************************************)
NCols(t) == IF Len(t) = 0 THEN 0 ELSE Len(t[1])

\* numpy broadcasts two index arrays of lengths m and g to one length, or
\* raises IndexError (shape mismatch) when m # g and neither is 1
Broadcastable(m, g) == m = g \/ m = 1 \/ g = 1

BroadcastLen(m, g) == IF m = 1 THEN g ELSE m

\* element i of array a broadcast to a longer array
Bc(a, i) == IF Len(a) = 1 THEN a[1] ELSE a[i]

\* y0[r, c] is defined when r is a row index and c a column index of y0
InBounds2(t, r, c) == InBounds(t, r) /\ -NCols(t) <= c /\ c < NCols(t)

\* y0[r, c]: row r, then column c of that row
At2(t, r, c) == At(At(t, r), c)

\* y0[idx - 1, group] and y0[idx, group] can be read for every element
TableReadable(t, ix, grp) ==
    \A i \in 1..BroadcastLen(Len(ix), Len(grp)) :
        /\ InBounds2(t, Bc(ix, i) - 1, Bc(grp, i))
        /\ InBounds2(t, Bc(ix, i), Bc(grp, i))

\* wl * y0[idx - 1, group] + (1 - wl) * y0[idx, 0]
GroupedResultOfColumn0(w, t, ix, grp) ==
    [i \in 1..BroadcastLen(Len(ix), Len(grp)) |->
        Blend(Bc(w, i),
              At2(t, Bc(ix, i) - 1, Bc(grp, i)),
              At2(t, Bc(ix, i), 0))]

\* wl * y0[idx - 1, group] + (1 - wl) * y0[idx, group]
GroupedResultOf(w, t, ix, grp) ==
    [i \in 1..BroadcastLen(Len(ix), Len(grp)) |->
        Blend(Bc(w, i),
              At2(t, Bc(ix, i) - 1, Bc(grp, i)),
              At2(t, Bc(ix, i), Bc(grp, i)))]

interpolateGrouped(k, t, q, grp) ==
    LET ix == IdxOf(k, q)
    IN  IF ~KnotsReadable(k, ix)
        THEN [idx |-> ix, wl |-> <<>>, err |-> "IndexError", out |-> <<>>]
        ELSE LET w == WlOf(k, q, ix)
             IN  IF \/ ~Broadcastable(Len(ix), Len(grp))
                    \/ ~TableReadable(t, ix, grp)
                 THEN [idx |-> ix, wl |-> w, err |-> "IndexError", out |-> <<>>]
                 ELSE [idx |-> ix, wl |-> w, err |-> "none",
                       out |-> GroupedResultOf(w, t, ix, grp)]

InterpolateGrouped ==
    /\ pc = "ready"
    /\ pc' = "done"
    /\ LET r == interpolateGrouped(x0, y0, x, group)
       IN  /\ idx' = r.idx
           /\ wl' = r.wl
           /\ err' = r.err
           /\ out' = r.out
    /\ UNCHANGED nbvars
    /\ UNCHANGED <<x0, y0, x, group>>

\* the tables of the checked instances: n knots, column g rises as k * k * g
\* from the level p, so no two columns and no two rows of a column agree
TableOf(n, p) == [k \in 1..n |-> [g \in 1..NumGroups |-> k * k * g + p]]

Groups == 0..(NumGroups - 1)

\* the documented grouped call: knots [0, 10], table [[1, 100], [2, 200]]
GroupedScenarioArgs ==
    /\ x0 = <<0, 10>>
    /\ y0 = <<<<1, 100>>, <<2, 200>>>>
    /\ x \in {<<5>>, <<5, 5>>}
    /\ group \in [1..Len(x) -> {0, 1}]

InitGrouped ==
    /\ \/ /\ x0 \in KnotSeqs
          /\ \E p \in Vals : y0 = TableOf(Len(x0), p)
          /\ x \in QueryBatches
          /\ group \in [1..Len(x) -> Groups]
       \/ GroupedScenarioArgs
    /\ pc = "ready"
    /\ idx = <<>>
    /\ wl = <<>>
    /\ err = "none"
    /\ out = <<>>
    /\ NotebookIdle

NextGrouped == InterpolateGrouped

SpecGrouped == InitGrouped /\ [][NextGrouped]_vars

(***************************************************************************)
(* Definitions the properties below are stated with.                       *)
(***************************************************************************)
\* a valid call: at least two strictly increasing knots, one value per knot
ValidArgs == Len(x0) >= 2 /\ StrictlyIncreasing(x0) /\ Len(y0) = Len(x0)

FirstKnot == x0[1]

LastKnot == x0[Len(x0)]

Returned == pc = "done" /\ err = "none"

Min(a, b) == IF a <= b THEN a ELSE b

Max(a, b) == IF a >= b THEN a ELSE b

\* the 1-based place of the first knot that is >= v, for v <= the last knot
RefPlace(k, v) ==
    CHOOSE j \in 1..Len(k) : k[j] >= v /\ \A i \in 1..(j - 1) : k[i] < v

\* (x0[idx] - x) / (x0[idx] - x0[idx - 1]) at that place
RefWeight(k, v) ==
    LET j == RefPlace(k, v) IN Norm(k[j] - v, k[j] - k[j - 1])

\* the linear interpolant between the two knots that bracket v
RefValue(k, vals, v) ==
    LET j == RefPlace(k, v)
        w == RefWeight(k, v)
    IN  RAdd(RMul(w, R(vals[j - 1])), RMul(RSub(R(1), w), R(vals[j])))

(***************************************************************************)
(* C1: for strictly increasing knots, n >= 2, aligned values and a query   *)
(* x with x0[0] < x <= x0[n-1], interpolate returns the linear interpolant *)
(* wl * y0[idx-1] + (1 - wl) * y0[idx] of the two bracketing knots, idx    *)
(* the smallest index with x0[idx] >= x and wl = (x0[idx] - x) /           *)
(* (x0[idx] - x0[idx-1]); a batch of such queries returns.                 *)
(***************************************************************************)
C1_InRangeIsLinearInterpolant ==
    (pc = "done" /\ ValidArgs) =>
        /\ (\A i \in 1..Len(x) : FirstKnot < x[i] /\ x[i] <= LastKnot)
               => err = "none"
        /\ err = "none" =>
               \A i \in 1..Len(x) :
                   (FirstKnot < x[i] /\ x[i] <= LastKnot) =>
                       /\ idx[i] = RefPlace(x0, x[i]) - 1
                       /\ wl[i] = RefWeight(x0, x[i])
                       /\ out[i] = RefValue(x0, y0, x[i])

\* knots [0, 10, 20], values [0, 100, 0]: 50 at x = 5 and at x = 15
C1_Witness ==
    /\ Returned
    /\ x0 = <<0, 10, 20>> /\ y0 = <<0, 100, 0>> /\ x = <<5, 15>>
    /\ out = <<R(50), R(50)>>

(***************************************************************************)
(* C2: a query equal to an interior knot x0[k], 0 < k < n-1, yields y0[k]  *)
(* exactly: the search gives idx = k, dr = 0 and wl = 0.                   *)
(***************************************************************************)
C2_InteriorKnotYieldsItsValue ==
    (Returned /\ ValidArgs) =>
        \A i \in 1..Len(x) : \A k \in 1..(Len(x0) - 2) :
            x[i] = At(x0, k) =>
                /\ idx[i] = k
                /\ Dr(x0, x[i], idx[i]) = 0
                /\ wl[i] = R(0)
                /\ out[i] = R(At(y0, k))

C2_Witness ==
    /\ Returned
    /\ x0 = <<0, 2, 4>> /\ y0 = <<0, 1, 0>> /\ x = <<2>>
    /\ idx = <<1>> /\ out = <<R(1)>>

(***************************************************************************)
(* C3: a query equal to the last knot x0[n-1] yields y0[n-1] exactly, and  *)
(* no read is out of bounds: a batch with no query above the last knot     *)
(* returns.                                                                *)
(***************************************************************************)
C3_LastKnotYieldsItsValue ==
    (pc = "done" /\ ValidArgs) =>
        /\ (\A i \in 1..Len(x) : x[i] <= LastKnot) => err = "none"
        /\ err = "none" =>
               \A i \in 1..Len(x) :
                   x[i] = LastKnot => out[i] = R(y0[Len(y0)])

\* knots [0, 10], values [5, 15]: 15 at x = 10
C3_Witness ==
    /\ Returned
    /\ x0 = <<0, 10>> /\ y0 = <<5, 15>> /\ x = <<10>>
    /\ out = <<R(15)>>

(***************************************************************************)
(* C4: a query equal to the first knot x0[0] yields y0[0] exactly.         *)
(***************************************************************************)
C4_FirstKnotYieldsItsValue ==
    (Returned /\ ValidArgs) =>
        \A i \in 1..Len(x) : x[i] = FirstKnot => out[i] = R(y0[1])

\* idx = 0, so x0[idx - 1] and y0[idx - 1] are read at the last knot
C4_Witness ==
    /\ Returned
    /\ x0 = <<0, 2, 4>> /\ y0 = <<1, 0, 0>> /\ x = <<0>>
    /\ idx = <<0>> /\ Dl(x0, 0, 0) = -4
    /\ out = <<R(1)>>

(***************************************************************************)
(* C5: at a query strictly between two adjacent knots the value lies       *)
(* between the smaller and the larger of the two knot values, inclusive.   *)
(***************************************************************************)
C5_NoOvershoot ==
    (Returned /\ ValidArgs) =>
        \A i \in 1..Len(x) : \A j \in 2..Len(x0) :
            (x0[j - 1] < x[i] /\ x[i] < x0[j]) =>
                /\ idx[i] = j - 1
                /\ RLeq(R(Min(y0[j - 1], y0[j])), out[i])
                /\ RLeq(out[i], R(Max(y0[j - 1], y0[j])))

C5_Witness ==
    /\ Returned
    /\ x0 = <<0, 4>> /\ y0 = <<1, 0>> /\ x = <<1, 3>>
    /\ out = <<<<3, 4>>, <<1, 4>>>>

(***************************************************************************)
(* C6: interpolation is affine in the knot values: with the knots and the  *)
(* queries fixed, the knot values c * y0 + k give c * out + k.             *)
(***************************************************************************)
Scales == -MaxScale..MaxScale

Affine(v, c, k) == [j \in 1..Len(v) |-> c * v[j] + k]

\* the call on the knot values c * y0 + k gives the outcome of this call,
\* with c * out + k returned
AffineImage(c, k) ==
    LET r == interpolate(x0, Affine(y0, c, k), x)
    IN  /\ r.err = err
        /\ Len(r.out) = Len(out)
        /\ \A i \in 1..Len(out) : r.out[i] = RAdd(RMul(R(c), out[i]), R(k))

C6_AffineInKnotValues ==
    (pc = "done" /\ ValidArgs) =>
        /\ \A c \in Scales : AffineImage(c, 0)
        /\ \A k \in Scales : AffineImage(1, k)

C6_Witness ==
    /\ Returned
    /\ x0 = <<0, 2, 4>> /\ y0 = <<0, 1, 0>> /\ x = <<1, 3>>
    /\ out = <<<<1, 2>>, <<1, 2>>>>
    /\ interpolate(x0, Affine(y0, -2, 1), x).out = <<R(0), R(0)>>

(***************************************************************************)
(* C7: a query above the last knot, for which the search gives idx = n, is *)
(* rejected with an out-of-range error before any weight or value is       *)
(* computed; interpolate returns no value.  The error the code raises is   *)
(* numpy's IndexError, from the read x0[idx].                              *)
(***************************************************************************)
C7_AboveLastKnotRejected ==
    (pc = "done" /\ ValidArgs /\ \E i \in 1..Len(x) : x[i] > LastKnot) =>
        /\ \A i \in 1..Len(x) : x[i] > LastKnot => idx[i] = Len(x0)
        /\ err = "IndexError"
        /\ wl = <<>>
        /\ out = <<>>

\* x = 25 with the last knot at 20
C7_Witness ==
    /\ pc = "done"
    /\ x0 = <<0, 10, 20>> /\ x = <<25>>
    /\ idx = <<3>> /\ err = "IndexError" /\ out = <<>>

(***************************************************************************)
(* C8: a query below the first knot is rejected with an out-of-range       *)
(* error; interpolate returns no value for it.                             *)
(***************************************************************************)
C8_BelowFirstKnotRejected ==
    (pc = "done" /\ ValidArgs /\ \E i \in 1..Len(x) : x[i] < FirstKnot) =>
        err # "none" /\ out = <<>>

(***************************************************************************)
(* C9: element i of the grouped interpolate is the univariate interpolate  *)
(* of the knots, the column y0[:, group[i]] and the one query x[i]; the    *)
(* same column is read at idx - 1 and at idx.                              *)
(***************************************************************************)
\* y0[:, g]
Column(t, g) == [k \in 1..Len(t) |-> At(t[k], g)]

ElementAlone(i) == interpolate(x0, Column(y0, group[i]), <<x[i]>>)

ValidGroupedArgs ==
    /\ Len(x0) >= 2 /\ StrictlyIncreasing(x0) /\ Len(y0) = Len(x0)
    /\ Len(group) = Len(x)
    /\ \A i \in 1..Len(group) : 0 <= group[i] /\ group[i] < NCols(y0)

C9_GroupedIsUnivariatePerColumn ==
    (pc = "done" /\ ValidGroupedArgs) =>
        IF err = "none"
        THEN /\ Len(out) = Len(x)
             /\ \A i \in 1..Len(x) :
                    LET r == ElementAlone(i)
                    IN  r.err = "none" /\ out[i] = r.out[1]
        ELSE \E i \in 1..Len(x) : ElementAlone(i).err # "none"

\* knots [0, 10], table [[1, 100], [2, 200]]: 150 at x = 5 in group 1
C9_Witness ==
    /\ Returned
    /\ x0 = <<0, 10>> /\ y0 = <<<<1, 100>>, <<2, 200>>>>
    /\ x = <<5, 5>> /\ group = <<1, 0>>
    /\ out = <<R(150), <<3, 2>>>>

(***************************************************************************)
(* C10: validation is all-or-nothing: a batch with any query outside       *)
(* [x0[0], x0[n-1]] fails as a whole and yields no output, not even for    *)
(* its valid entries.                                                      *)
(***************************************************************************)
C10_InvalidEntryFailsWholeBatch ==
    (pc = "done" /\ ValidArgs
        /\ \E i \in 1..Len(x) : x[i] < FirstKnot \/ x[i] > LastKnot) =>
        err # "none" /\ out = <<>>

InRange(v) == FirstKnot <= v /\ v <= LastKnot

(***************************************************************************)
(* C16 as stated: for every query in [x0[0], x0[n-1]] the index found and  *)
(* the left neighbour actually read at idx - 1 bracket the query:          *)
(* x0[idx - 1] <= x <= x0[idx].                                            *)
(***************************************************************************)
C16_BracketsEveryInRangeQuery ==
    (pc = "done" /\ ValidArgs) =>
        \A i \in 1..Len(x) :
            InRange(x[i]) =>
                At(x0, idx[i] - 1) <= x[i] /\ x[i] <= At(x0, idx[i])

(***************************************************************************)
(* C16, amended: the bracket holds for x0[0] < x <= x0[n-1]; for           *)
(* x = x0[0] the index is 0, the knot at idx is the query itself and the   *)
(* neighbour read at idx - 1 is the last knot, which lies above the query. *)
(***************************************************************************)
C16_BracketsRightOfFirstKnot ==
    (pc = "done" /\ ValidArgs) =>
        \A i \in 1..Len(x) :
            /\ (FirstKnot < x[i] /\ x[i] <= LastKnot) =>
                  At(x0, idx[i] - 1) <= x[i] /\ x[i] <= At(x0, idx[i])
            /\ x[i] = FirstKnot =>
                  /\ idx[i] = 0
                  /\ At(x0, idx[i]) = x[i]
                  /\ At(x0, idx[i] - 1) = LastKnot
                  /\ At(x0, idx[i] - 1) > x[i]

C16_Witness ==
    /\ Returned
    /\ x0 = <<0, 2, 4>>
    /\ x = <<0, 3>>
    /\ idx = <<0, 2>>
    /\ At(x0, idx[1] - 1) = 4
    /\ At(x0, idx[2] - 1) = 2

(***************************************************************************)
(* C17 as stated: for x = x0[0] the search returns 0, idx - 1 = -1 wraps   *)
(* to the last knot, and the value produced is not y0[0].                  *)
(***************************************************************************)
C17_FirstKnotWrapsToWrongValue ==
    (Returned /\ ValidArgs) =>
        \A i \in 1..Len(x) :
            x[i] = FirstKnot =>
                /\ idx[i] = 0
                /\ At(x0, idx[i] - 1) = LastKnot
                /\ out[i] # R(y0[1])

(***************************************************************************)
(* C17, amended: for x = x0[0] the search returns 0 and idx - 1 = -1 wraps *)
(* to the last knot, but dr = 0, so wl = 0 and the value produced is       *)
(* exactly y0[0]: the last knot's value has weight 0.                      *)
(***************************************************************************)
C17_FirstKnotWrapsWithWeightZero ==
    (Returned /\ ValidArgs) =>
        \A i \in 1..Len(x) :
            x[i] = FirstKnot =>
                /\ idx[i] = 0
                /\ At(x0, idx[i] - 1) = LastKnot
                /\ Dr(x0, x[i], idx[i]) = 0
                /\ wl[i] = R(0)
                /\ out[i] = R(y0[1])

C17_Witness ==
    /\ Returned
    /\ x0 = <<0, 4>>
    /\ y0 = <<0, 1>>
    /\ x = <<0>>
    /\ idx = <<0>>
    /\ At(y0, idx[1] - 1) = 1
    /\ wl = <<R(0)>>
    /\ out = <<R(0)>>

(***************************************************************************)
(* C18: for strictly increasing knots, n >= 2, and every query in          *)
(* [x0[0], x0[n-1]], the wrapped case x = x0[0] included, the denominator  *)
(* d = dl + dr is not zero.                                                *)
(***************************************************************************)
C18_DenominatorNonZero ==
    (pc = "done" /\ ValidArgs) =>
        \A i \in 1..Len(x) :
            InRange(x[i]) => D(x0, x[i], idx[i]) # 0

C18_Witness ==
    /\ Returned
    /\ x0 = <<0, 2, 4>>
    /\ x = <<0, 4>>
    /\ idx = <<0, 2>>
    /\ D(x0, x[1], idx[1]) = -4
    /\ D(x0, x[2], idx[2]) = 2

(***************************************************************************)
(* C20: for strictly increasing knots, n >= 2, the weight wl satisfies     *)
(* 0 <= wl <= 1 for every query in [x0[0], x0[n-1]], the wrapped case      *)
(* x = x0[0] included, and lies outside [0, 1] for a query below x0[0].    *)
(***************************************************************************)
C20_WeightInUnitIntervalIffInRange ==
    (pc = "done" /\ ValidArgs /\ Len(wl) = Len(x)) =>
        \A i \in 1..Len(x) :
            /\ InRange(x[i]) => RLeq(R(0), wl[i]) /\ RLeq(wl[i], R(1))
            /\ x[i] < FirstKnot =>
                  ~(RLeq(R(0), wl[i]) /\ RLeq(wl[i], R(1)))

C20_Witness ==
    /\ Returned
    /\ x0 = <<0, 4>>
    /\ x = <<-1, 1>>
    /\ idx = <<0, 1>>
    /\ wl = <<<<-1, 4>>, <<3, 4>>>>

(***************************************************************************)
(* Calls whose arguments break the preconditions: knots that are sorted    *)
(* but may repeat, fewer than two knots, and values that are not one per   *)
(* knot.                                                                   *)
(***************************************************************************)
NonDecreasing(s) == \A i \in 1..(Len(s) - 1) : s[i] <= s[i + 1]

AnyKnotSeqs ==
    {s \in UNION {[1..n -> KnotPositions] : n \in 0..MaxKnots} :
        NonDecreasing(s)}

AnyValueSeqs == UNION {[1..n -> Vals] : n \in 0..MaxKnots}

InitAnyArgs ==
    /\ x0 \in AnyKnotSeqs
    /\ y0 \in AnyValueSeqs
    /\ x \in QueryBatches
    /\ group = <<>>
    /\ pc = "ready"
    /\ idx = <<>>
    /\ wl = <<>>
    /\ err = "none"
    /\ out = <<>>
    /\ NotebookIdle

SpecAnyArgs == InitAnyArgs /\ [][Next]_vars

(***************************************************************************)
(* C11: a call whose knots are not strictly increasing, or are fewer than  *)
(* two, or whose values are not one per knot, is rejected with an error    *)
(* and returns no value.                                                   *)
(***************************************************************************)
C11_InvalidInputRejected ==
    (pc = "done" /\ ~ValidArgs /\ Len(x) >= 1) =>
        err # "none" /\ out = <<>>

(***************************************************************************)
(* Grouped calls whose group indices may lie outside the columns of the    *)
(* table.                                                                  *)
(***************************************************************************)
AnyGroups == (-NumGroups - 1)..NumGroups

InitAnyGroups ==
    /\ x0 \in KnotSeqs
    /\ \E p \in Vals : y0 = TableOf(Len(x0), p)
    /\ x \in QueryBatches
    /\ group \in [1..Len(x) -> AnyGroups]
    /\ pc = "ready"
    /\ idx = <<>>
    /\ wl = <<>>
    /\ err = "none"
    /\ out = <<>>
    /\ NotebookIdle

SpecAnyGroups == InitAnyGroups /\ [][NextGrouped]_vars

(***************************************************************************)
(* C12: in the grouped interpolate a group index outside [0, num_groups),  *)
(* a negative one included, is rejected with an error; it is never used to *)
(* read a column of the table.                                             *)
(***************************************************************************)
C12_GroupOutsideRangeRejected ==
    (pc = "done"
        /\ \E i \in 1..Len(group) : group[i] < 0 \/ group[i] >= NCols(y0)) =>
        err # "none" /\ out = <<>>

(***************************************************************************)
(* Several calls in flight at once.  Every caller runs the body of         *)
(* interpolate, or of the grouped interpolate, one statement group at a    *)
(* time: the search (lines 165, 344), the weights (lines 166-169,          *)
(* 345-348) and the blend (lines 171, 350).  The knots are the one global  *)
(* array both call sites pass; y0, x, group, idx, wl, err and out hold one *)
(* entry per caller, and pc[p] is the function caller p runs and its       *)
(* position in it.                                                         *)
(***************************************************************************)
NumCallers == 2

Callers == 1..NumCallers

\* knots = np.linspace(...): the evenly spaced grid
LinspaceKnots == [k \in 1..(MaxPos + 1) |-> 2 * (k - 1)]

CallerValues == [k \in 1..Len(LinspaceKnots) |-> k * k]

CallerTable == TableOf(Len(LinspaceKnots), 0)

Functions == {"interpolate", "interpolateGrouped"}

\* the first and the last column of the table
CallerGroups == {0, NumGroups - 1}

InitCallers ==
    /\ x0 = LinspaceKnots
    /\ \E f \in [Callers -> Functions], q \in [Callers -> QueryPositions],
          g \in [Callers -> CallerGroups] :
          /\ pc = [p \in Callers |-> [fn |-> f[p], at |-> "search"]]
          /\ y0 = [p \in Callers |->
                      IF f[p] = "interpolate" THEN CallerValues
                                              ELSE CallerTable]
          /\ x = [p \in Callers |-> <<q[p]>>]
          /\ group = [p \in Callers |->
                         IF f[p] = "interpolate" THEN <<>> ELSE <<g[p]>>]
    /\ idx = [p \in Callers |-> <<>>]
    /\ wl = [p \in Callers |-> <<>>]
    /\ err = [p \in Callers |-> "none"]
    /\ out = [p \in Callers |-> <<>>]
    /\ NotebookIdle

Goto(p, label) == pc' = [pc EXCEPT ![p].at = label]

Raise(p) ==
    /\ err' = [err EXCEPT ![p] = "IndexError"]
    /\ Goto(p, "done")

\* idx kept in one array that every caller writes
CallSearchShared(p) ==
    /\ pc[p].at = "search"
    /\ idx' = [c \in Callers |-> IdxOf(x0, x[p])]
    /\ Goto(p, "weights")
    /\ UNCHANGED nbvars
    /\ UNCHANGED <<x0, y0, x, group, wl, err, out>>

\* idx = np.searchsorted(x0, x)
CallSearch(p) ==
    /\ pc[p].at = "search"
    /\ idx' = [idx EXCEPT ![p] = IdxOf(x0, x[p])]
    /\ Goto(p, "weights")
    /\ UNCHANGED nbvars
    /\ UNCHANGED <<x0, y0, x, group, wl, err, out>>

\* dl, dr, d, wl
CallWeights(p) ==
    /\ pc[p].at = "weights"
    /\ IF KnotsReadable(x0, idx[p])
       THEN /\ wl' = [wl EXCEPT ![p] = WlOf(x0, x[p], idx[p])]
            /\ Goto(p, "blend")
            /\ UNCHANGED err
       ELSE /\ Raise(p)
            /\ UNCHANGED wl
    /\ UNCHANGED nbvars
    /\ UNCHANGED <<x0, y0, x, group, idx, out>>

BlendReadable(p) ==
    IF pc[p].fn = "interpolate"
    THEN ValuesReadable(y0[p], idx[p])
    ELSE /\ Broadcastable(Len(idx[p]), Len(group[p]))
         /\ TableReadable(y0[p], idx[p], group[p])

BlendOf(p) ==
    IF pc[p].fn = "interpolate"
    THEN ResultOf(wl[p], y0[p], idx[p])
    ELSE GroupedResultOf(wl[p], y0[p], idx[p], group[p])

Finished == {c \in Callers : pc[c].at = "done"}

\* the value returned drifts with the number of calls that finished before
CallBlendCounting(p) ==
    /\ pc[p].at = "blend"
    /\ IF BlendReadable(p)
       THEN /\ out' = [out EXCEPT ![p] =
                          [i \in 1..Len(BlendOf(p)) |->
                              RAdd(BlendOf(p)[i], R(Cardinality(Finished)))]]
            /\ Goto(p, "done")
            /\ UNCHANGED err
       ELSE /\ Raise(p)
            /\ UNCHANGED out
    /\ UNCHANGED nbvars
    /\ UNCHANGED <<x0, y0, x, group, idx, wl>>

\* return wl * y0[idx - 1] + (1 - wl) * y0[idx], with group in the grouped form
CallBlend(p) ==
    /\ pc[p].at = "blend"
    /\ IF BlendReadable(p)
       THEN /\ out' = [out EXCEPT ![p] = BlendOf(p)]
            /\ Goto(p, "done")
            /\ UNCHANGED err
       ELSE /\ Raise(p)
            /\ UNCHANGED out
    /\ UNCHANGED nbvars
    /\ UNCHANGED <<x0, y0, x, group, idx, wl>>

NextCallers ==
    \E p \in Callers : CallSearch(p) \/ CallWeights(p) \/ CallBlend(p)

SpecCallers == InitCallers /\ [][NextCallers]_vars

\* the call of caller p run on its own, start to end
Isolated(p) ==
    IF pc[p].fn = "interpolate"
    THEN interpolate(x0, y0[p], x[p])
    ELSE interpolateGrouped(x0, y0[p], x[p], group[p])

SameCall(p, q) ==
    /\ pc[p].fn = pc[q].fn
    /\ y0[p] = y0[q]
    /\ x[p] = x[q]
    /\ group[p] = group[q]

C14_InterleavedAsIsolated ==
    /\ [](\A p \in Callers :
            pc[p].at = "done" =>
                LET r == Isolated(p)
                IN  /\ idx[p] = r.idx
                    /\ wl[p] = r.wl
                    /\ err[p] = r.err
                    /\ out[p] = r.out)
    /\ [][UNCHANGED <<x0, y0, x, group>>]_vars

C14_Witness ==
    \E p, q \in Callers :
        /\ pc[p].at = "done" /\ pc[q].at = "done"
        /\ pc[p].fn = "interpolate" /\ pc[q].fn = "interpolateGrouped"
        /\ x[p] = <<1>> /\ idx[p] = <<1>> /\ out[p] = <<<<5, 2>>>>
        /\ x[q] = <<3>> /\ idx[q] = <<2>> /\ group[q] = <<1>>
        /\ out[q] = <<R(13)>>

(***************************************************************************)
(* The notebook run top to bottom, as far as random numbers go.  numpy's   *)
(* global random state starts from operating-system entropy, a different   *)
(* value on every run; np.random.seed and pm.sample(random_seed=...)       *)
(* reseed it; pm.sample without random_seed, sample_posterior_predictive   *)
(* and np.random.normal draw from it as it stands.  env.rng is that state: *)
(* where its seed came from, the seed, and how many statements drew from   *)
(* it since.  runs records, for every sampling step, the state it started  *)
(* from.                                                                   *)
(***************************************************************************)
RANDOM_SEED == 20090425

NumpySeed == 42

MaxEntropy == 9

Entropy == 1..MaxEntropy

Workflow ==
    << [line |-> 47, op |-> "RANDOM_SEED ="],
       [line |-> 210, op |-> "pm.sample", random_seed |-> "None"],
       [line |-> 375, op |-> "pm.sample", random_seed |-> "None"],
       [line |-> 482, op |-> "np.random.seed"],
       [line |-> 488, op |-> "np.random.normal"],
       [line |-> 533, op |-> "pm.sample", random_seed |-> "None"],
       [line |-> 590, op |-> "pm.sample", random_seed |-> "None"],
       [line |-> 799, op |-> "pm.sample", random_seed |-> "None"],
       [line |-> 900, op |-> "pm.sample", random_seed |-> "None"],
       [line |-> 926, op |-> "pm.sample_posterior_predictive"],
       [line |-> 1039, op |-> "pm.sample", random_seed |-> "RANDOM_SEED"],
       [line |-> 1067, op |-> "pm.sample_posterior_predictive"] >>

Running(op) == cell \in 1..Len(Workflow) /\ Workflow[cell].op = op

Seeded(s) == [by |-> "seed", value |-> s, drawn |-> 0]

Drawn(r) == [r EXCEPT !.drawn = r.drawn + 1]

\* the sampling step at the current line, started from random state r
Run(r) == [line |-> Workflow[cell].line, by |-> r.by, value |-> r.value,
           drawn |-> r.drawn]

InitWorkflow ==
    /\ cell = 1
    /\ \E e \in Entropy : env = [rng |-> [by |-> "os", value |-> e, drawn |-> 0]]
    /\ runs = <<>>
    /\ CallIdle

\* RANDOM_SEED = 20090425
AssignRandomSeed ==
    /\ Running("RANDOM_SEED =")
    /\ env' = [RANDOM_SEED |-> RANDOM_SEED, rng |-> env.rng]
    /\ cell' = cell + 1
    /\ UNCHANGED runs
    /\ UNCHANGED callvars

\* np.random.seed(seed=42)
NumpyRandomSeed ==
    /\ Running("np.random.seed")
    /\ env' = [env EXCEPT !.rng = Seeded(NumpySeed)]
    /\ cell' = cell + 1
    /\ UNCHANGED runs
    /\ UNCHANGED callvars

\* y[i] = 0.95 * y[i-1] + np.random.normal(), for every i
NumpyRandomNormal ==
    /\ Running("np.random.normal")
    /\ env' = [env EXCEPT !.rng = Drawn(env.rng)]
    /\ cell' = cell + 1
    /\ UNCHANGED runs
    /\ UNCHANGED callvars

\* pm.sample(...): with random_seed it reseeds the global state first; the
\* seeds of the chains are then drawn from the global state
Sample ==
    /\ Running("pm.sample")
    /\ LET r == IF Workflow[cell].random_seed = "None"
                THEN env.rng
                ELSE Seeded(env.RANDOM_SEED)
       IN  /\ runs' = Append(runs, Run(r))
           /\ env' = [env EXCEPT !.rng = Drawn(r)]
    /\ cell' = cell + 1
    /\ UNCHANGED callvars

\* pm.sample_posterior_predictive(trace, samples=500)
SamplePosteriorPredictive ==
    /\ Running("pm.sample_posterior_predictive")
    /\ runs' = Append(runs, Run(env.rng))
    /\ env' = [env EXCEPT !.rng = Drawn(env.rng)]
    /\ cell' = cell + 1
    /\ UNCHANGED callvars

NextWorkflow ==
    \/ AssignRandomSeed
    \/ NumpyRandomSeed
    \/ NumpyRandomNormal
    \/ Sample
    \/ SamplePosteriorPredictive

SpecWorkflow == InitWorkflow /\ [][NextWorkflow]_vars

(***************************************************************************)
(* C15: the workflow sets one shared random seed at start-up, and every    *)
(* sampling step run afterwards, top to bottom, is governed by that seed.  *)
(***************************************************************************)
C15_EverySamplingStepUnderRandomSeed ==
    \A i \in 1..Len(runs) :
        runs[i].by = "seed" /\ runs[i].value = RANDOM_SEED

(***************************************************************************)
(* The ARMA(1,1) innovations (lines 767-782).  scan walks the series y     *)
(* with taps [-1, 0]: step i hands calc_next the elements y[i] and         *)
(* y[i + 1], the previous step's output (err0 at the first step) and the   *)
(* non-sequences, and scan returns the outputs of the steps, stacked.      *)
(* env holds the names bound so far; env.steps is scan's output buffer     *)
(* while the loop runs.                                                    *)
(***************************************************************************)
MaxT == 4

MaxCoeff == 1

Coeffs == -MaxCoeff..MaxCoeff

Series == UNION {[1..n -> Vals] : n \in 1..MaxT}

ArmaCells ==
    << [line |-> 771, op |-> "err0 ="],
       [line |-> 777, op |-> "scan"],
       [line |-> 782, op |-> "pm.Normal"] >>

ArmaRunning(op) == cell \in 1..Len(ArmaCells) /\ ArmaCells[cell].op = op

\* name = val in the notebook's globals
Bind(e, name, val) ==
    [f \in DOMAIN e \cup {name} |-> IF f = name THEN val ELSE e[f]]

Bound(name) == name \in DOMAIN env

\* sequences=dict(input=y, taps=[-1, 0])
Taps == <<-1, 0>>

\* the number of steps scan runs over a series s
NSteps(s) == Len(s) - (Taps[2] - Taps[1])

\* the element of s that tap k hands to step i, i counted from 0
Tap(s, i, k) == s[i + (Taps[k] - Taps[1]) + 1]

\* nu_t = mu + rho * this_y + theta * err; return last_y - nu_t
calc_next_swapped(last_y, this_y, e, mu, rho, theta) ==
    last_y - (mu + rho * this_y + theta * e)

\* nu_t = mu + rho * last_y + theta * err; return this_y - nu_t
calc_next(last_y, this_y, e, mu, rho, theta) ==
    this_y - (mu + rho * last_y + theta * e)

InitArma ==
    /\ cell = 1
    /\ \E s \in Series, m \in Coeffs, r \in Coeffs, th \in Coeffs :
          env = [y |-> s, mu |-> m, rho |-> r, theta |-> th]
    /\ runs = <<>>
    /\ CallIdle

\* err0 = y[0] - (mu + rho * mu)
Err0 ==
    /\ ArmaRunning("err0 =")
    /\ env' = Bind(env, "err0", env.y[1] - (env.mu + env.rho * env.mu))
    /\ cell' = cell + 1
    /\ UNCHANGED runs
    /\ UNCHANGED callvars

\* scan(...) entered: no step has run
ScanEnter ==
    /\ ArmaRunning("scan")
    /\ ~Bound("steps")
    /\ env' = Bind(env, "steps", <<>>)
    /\ UNCHANGED <<cell, runs>>
    /\ UNCHANGED callvars

\* one step of scan: fn(*taps of the sequence, previous output, *non_sequences)
ScanStep ==
    /\ ArmaRunning("scan")
    /\ Bound("steps")
    /\ Len(env.steps) < NSteps(env.y)
    /\ LET i == Len(env.steps)
           prev == IF i = 0 THEN env.err0 ELSE env.steps[i]
       IN  env' = [env EXCEPT !.steps =
                      Append(@, calc_next(Tap(env.y, i, 1), Tap(env.y, i, 2),
                                          prev, env.mu, env.rho, env.theta))]
    /\ UNCHANGED <<cell, runs>>
    /\ UNCHANGED callvars

\* err, _ = scan(...): the stacked outputs of the steps
ScanReturn ==
    /\ ArmaRunning("scan")
    /\ Bound("steps")
    /\ Len(env.steps) >= NSteps(env.y)
    /\ env' = Bind(env, "err", env.steps)
    /\ cell' = cell + 1
    /\ UNCHANGED runs
    /\ UNCHANGED callvars

\* likelhood = pm.Normal('likelihood', 0, sigma=sigma, observed=err)
Likelihood ==
    /\ ArmaRunning("pm.Normal")
    /\ env' = Bind(env, "observed", env.err)
    /\ cell' = cell + 1
    /\ UNCHANGED runs
    /\ UNCHANGED callvars

NextArma == Err0 \/ ScanEnter \/ ScanStep \/ ScanReturn \/ Likelihood

SpecArma == InitArma /\ [][NextArma]_vars

\* err[t] of the recurrence, t counted from 0 as in the series
RECURSIVE RefErr(_, _, _, _, _)
RefErr(s, m, r, th, t) ==
    IF t = 0
    THEN s[1] - (m + r * m)
    ELSE s[t + 1] - (m + r * s[t] + th * RefErr(s, m, r, th, t - 1))

(***************************************************************************)
(* C19: over a series y of length T the recurrence runs exactly T - 1      *)
(* steps, t = 1..T-1, each giving                                          *)
(* err[t] = y[t] - (mu + rho * y[t-1] + theta * err[t-1]), started from    *)
(* err[0] = y[0] - (mu + rho * mu); the sequence handed to the likelihood  *)
(* has T - 1 elements, err[1]..err[T-1], without err[0]; mu, rho and theta *)
(* are the same at every step.                                             *)
(***************************************************************************)
C19_InnovationsRecurrence ==
    /\ [](Bound("observed") =>
            LET T == Len(env.y)
            IN  /\ Len(env.steps) = T - 1
                /\ Len(env.observed) = T - 1
                /\ env.err0 = RefErr(env.y, env.mu, env.rho, env.theta, 0)
                /\ \A t \in 1..(T - 1) :
                      env.observed[t] =
                          RefErr(env.y, env.mu, env.rho, env.theta, t))
    /\ [][/\ env'.y = env.y
          /\ env'.mu = env.mu
          /\ env'.rho = env.rho
          /\ env'.theta = env.theta]_vars

C19_Witness ==
    /\ Bound("observed")
    /\ env.y = <<1, 0, 1, 1>>
    /\ env.mu = 1 /\ env.rho = -1 /\ env.theta = 1
    /\ env.err0 = 1
    /\ env.observed = <<-1, 1, 0>>

(***************************************************************************)
(* The data, the knots and the two calls of interpolate, top to bottom     *)
(* (lines 74-78, 140-141, 181, 258-264, 361).  pancreatitis.csv is a       *)
(* sequence of rows, each an area and the midpoint of an age interval;     *)
(* its contents are the file's, so every file within the bounds is tried.  *)
(* Ages are multiples of nknots - 1, which keeps the knots of np.linspace  *)
(* whole numbers.  A call step runs the whole call and leaves its          *)
(* arguments, locals and result in the call's variables.                   *)
(***************************************************************************)
nknots == 9

MaxRows == 3

MaxAge == 3

Ages == {(nknots - 1) * a : a \in 0..MaxAge}

\* the areas of the file: Finland, one more of the six countries, one other
Areas == {"FIN", "DNK", "SWE"}

countries == <<"CYP", "DNK", "ESP", "FIN", "GBR", "ISL">>

Rows == [area : Areas, age : Ages]

\* the files tried: Finland has rows of at least two ages
CsvFiles ==
    {f \in UNION {[1..n -> Rows] : n \in 1..MaxRows} :
        \E i, j \in 1..Len(f) :
            /\ f[i].area = "FIN"
            /\ f[j].area = "FIN"
            /\ f[i].age < f[j].age}

KnotCells ==
    << [line |-> 74, op |-> "pd.read_csv"],
       [line |-> 75, op |-> "data[area]", keep |-> {"FIN"}],
       [line |-> 77, op |-> "age ="],
       [line |-> 141, op |-> "np.linspace"],
       [line |-> 181, op |-> "interpolate"],
       [line |-> 258, op |-> "pd.read_csv"],
       [line |-> 260, op |-> "data[area]",
        keep |-> {countries[i] : i \in 1..Len(countries)}],
       [line |-> 262, op |-> "age ="],
       [line |-> 264, op |-> "pd.factorize"],
       [line |-> 361, op |-> "interpolateGrouped"] >>

KnotsRunning(op) == cell \in 1..Len(KnotCells) /\ KnotCells[cell].op = op

SeqMin(s) == CHOOSE v \in {s[i] : i \in 1..Len(s)} :
                 \A i \in 1..Len(s) : v <= s[i]

SeqMax(s) == CHOOSE v \in {s[i] : i \in 1..Len(s)} :
                 \A i \in 1..Len(s) : v >= s[i]

\* np.linspace(a, b, n): n evenly spaced points from a to b
Linspace(a, b, n) == [k \in 1..n |-> a + ((b - a) * (k - 1)) \div (n - 1)]

\* the codes pd.factorize gives: areas numbered from 0 as they first appear
FirstAt(s, v) == CHOOSE i \in 1..Len(s) : s[i] = v /\ \A j \in 1..(i - 1) : s[j] # v

Factorize(s) ==
    [i \in 1..Len(s) |->
        Cardinality({s[j] : j \in 1..(FirstAt(s, s[i]) - 1)})]

NUnique(s) == Cardinality({s[i] : i \in 1..Len(s)})

\* the knot values of the univariate model and of the multivariate one
WalkValues == [k \in 1..nknots |-> k * k]

WalkTable(ncountries) ==
    [k \in 1..nknots |-> [g \in 1..ncountries |-> k * k * g]]

InitKnots ==
    /\ cell = 1
    /\ \E f \in CsvFiles : env = [csv |-> f]
    /\ runs = <<>>
    /\ CallIdle

\* data = pd.read_csv(pm.get_data('pancreatitis.csv'))
ReadCsv ==
    /\ KnotsRunning("pd.read_csv")
    /\ env' = Bind(env, "data", env.csv)
    /\ cell' = cell + 1
    /\ UNCHANGED runs
    /\ UNCHANGED callvars

\* data = data[data.area=='FIN'], data = data[data.area.isin(countries)]
FilterArea ==
    /\ KnotsRunning("data[area]")
    /\ env' = Bind(env, "data",
                   SelectSeq(env.data,
                             LAMBDA r : r.area \in KnotCells[cell].keep))
    /\ cell' = cell + 1
    /\ UNCHANGED runs
    /\ UNCHANGED callvars

\* age = data['age'] = np.array(data.age_start + data.age_end) / 2
AssignAge ==
    /\ KnotsRunning("age =")
    /\ env' = Bind(env, "age", [i \in 1..Len(env.data) |-> env.data[i].age])
    /\ cell' = cell + 1
    /\ UNCHANGED runs
    /\ UNCHANGED callvars

\* knots = np.linspace(data.age.min(), data.age.max(), nknots)
AssignKnots ==
    /\ KnotsRunning("np.linspace")
    /\ env' = Bind(env, "knots",
                   Linspace(SeqMin(env.age), SeqMax(env.age), nknots))
    /\ cell' = cell + 1
    /\ UNCHANGED runs
    /\ UNCHANGED callvars

\* group, countries = pd.factorize(data.area, order=countries)
AssignGroup ==
    /\ KnotsRunning("pd.factorize")
    /\ env' = Bind(env, "group",
                   Factorize([i \in 1..Len(env.data) |-> env.data[i].area]))
    /\ cell' = cell + 1
    /\ UNCHANGED runs
    /\ UNCHANGED callvars

\* p = interpolate(knots, y, age)
CallInterpolate ==
    /\ KnotsRunning("interpolate")
    /\ x0' = env.knots
    /\ y0' = WalkValues
    /\ x' = env.age
    /\ group' = <<>>
    /\ LET r == interpolate(env.knots, WalkValues, env.age)
       IN  /\ idx' = r.idx
           /\ wl' = r.wl
           /\ err' = r.err
           /\ out' = r.out
    /\ pc' = "done"
    /\ runs' = Append(runs, KnotCells[cell].line)
    /\ cell' = cell + 1
    /\ UNCHANGED env

\* p = interpolate(knots, y, age, group)
CallInterpolateGrouped ==
    /\ KnotsRunning("interpolateGrouped")
    /\ x0' = env.knots
    /\ y0' = WalkTable(NUnique(env.group))
    /\ x' = env.age
    /\ group' = env.group
    /\ LET r == interpolateGrouped(env.knots, WalkTable(NUnique(env.group)),
                                   env.age, env.group)
       IN  /\ idx' = r.idx
           /\ wl' = r.wl
           /\ err' = r.err
           /\ out' = r.out
    /\ pc' = "done"
    /\ runs' = Append(runs, KnotCells[cell].line)
    /\ cell' = cell + 1
    /\ UNCHANGED env

NextKnots ==
    \/ ReadCsv
    \/ FilterArea
    \/ AssignAge
    \/ AssignKnots
    \/ AssignGroup
    \/ CallInterpolate
    \/ CallInterpolateGrouped

SpecKnots == InitKnots /\ [][NextKnots]_vars

(***************************************************************************)
(* C21: run top to bottom, every call of interpolate gets knots computed   *)
(* from the data set its queries come from, so every query lies within     *)
(* [knots[0], knots[n-1]]; the grouped call on the six-country data gets   *)
(* knots spanning the least and the greatest age of that data.             *)
(***************************************************************************)
C21_KnotsSpanTheQueriesOfEveryCall ==
    pc = "done" =>
        /\ x0 = Linspace(SeqMin(x), SeqMax(x), nknots)
        /\ \A i \in 1..Len(x) : x0[1] <= x[i] /\ x[i] <= x0[Len(x0)]

====
